---- MODULE Spec2Model ----
(***************************************************************************)
(* jina-mcp-tools: the tool handlers of src/index.js (jina_reader,         *)
(* jina_search) and of the legacy server src/unnamed/part_000              *)
(* (jina_reader, jina_search, jina_fact_check), with the helpers they      *)
(* call.                                                                   *)
(*                                                                         *)
(* A JavaScript string is modelled as a sequence of one-character strings, *)
(* so that includes, replace, match, template literals, toString and       *)
(* encodeURIComponent are computed character by character.  A header set   *)
(* is a function from header names to such strings.                        *)
(***************************************************************************)
EXTENDS Integers, Sequences, FiniteSets, TLC

VARIABLES
    JINA_API_KEY,   \* process.env.JINA_API_KEY: <<>> when unset, <<value>> when set
    pc,             \* per invocation: "idle", "fetch" (awaiting fetch), "body" (awaiting the body), "done"
    tool,           \* per invocation: the handler that runs
    args,           \* per invocation: the validated parameters the handler was called with
    locals,         \* per invocation: the handler's local constants
    fetched,        \* per invocation: the fetch calls made so far, in order
    response,       \* per invocation: what fetch settled with
    result          \* per invocation: <<>> until the handler settles, then its outcome

vars == <<JINA_API_KEY, pc, tool, args, locals, fetched, response, result>>

\* ------------------------------------------------------------------------
\* JavaScript string operations
\* ------------------------------------------------------------------------

\* lit occurs in s at index i (1-based)
StartsWithAt(s, i, lit) ==
    /\ i >= 1
    /\ i + Len(lit) - 1 <= Len(s)
    /\ \A k \in 1..Len(lit) : s[i + k - 1] = lit[k]

\* String.prototype.indexOf, 1-based; 0 when lit does not occur
indexOf(s, lit) ==
    LET hits == {i \in 1..(Len(s) - Len(lit) + 1) : StartsWithAt(s, i, lit)}
    IN  IF hits = {} THEN 0 ELSE CHOOSE i \in hits : \A j \in hits : i <= j

\* String.prototype.includes
includes(s, lit) == indexOf(s, lit) # 0

\* String.prototype.replace with a string pattern: the first occurrence only
replace(s, lit, rep) ==
    LET i == indexOf(s, lit)
    IN  IF i = 0 THEN s
        ELSE SubSeq(s, 1, i - 1) \o rep \o SubSeq(s, i + Len(lit), Len(s))

Digits == <<"0", "1", "2", "3", "4", "5", "6", "7", "8", "9">>

\* Number.prototype.toString of an integer
RECURSIVE toString(_)
toString(n) ==
    IF n < 0 THEN <<"-">> \o toString(0 - n)
    ELSE IF n < 10 THEN <<Digits[n + 1]>>
    ELSE toString(n \div 10) \o <<Digits[(n % 10) + 1]>>

\* Object property assignment headers[k] = v
Put(h, k, v) == [x \in (DOMAIN h) \cup {k} |-> IF x = k THEN v ELSE h[x]]

\* ------------------------------------------------------------------------
\* Credential
\* ------------------------------------------------------------------------

null == <<>>

\* process.env.JINA_API_KEY || null: an unset and an empty value are both falsy
getJinaApiKey ==
    IF JINA_API_KEY = <<>> \/ JINA_API_KEY[1] = <<>> THEN null ELSE JINA_API_KEY

\* as createHeaders, never adding the key
createHeadersNoKey(baseHeaders) == baseHeaders

\* copy of baseHeaders, with Authorization added when a key is configured
createHeaders(baseHeaders) ==
    LET apiKey == getJinaApiKey
    IN  IF apiKey # null
        THEN Put(baseHeaders, "Authorization", <<"B","e","a","r","e","r"," ">> \o apiKey[1])
        ELSE baseHeaders

\* ------------------------------------------------------------------------
\* Enums
\* ------------------------------------------------------------------------

ExtractionMode == {"standard", "comprehensive", "clean_content"}

OutputFormat == {"default", "markdown", "text", "structured"}

\* ------------------------------------------------------------------------
\* handleGitHubUrl
\* ------------------------------------------------------------------------

GITHUB_COM == <<"g","i","t","h","u","b",".","c","o","m">>

BLOB == <<"/","b","l","o","b","/">>

RAW_HOST == <<"r","a","w",".","g","i","t","h","u","b","u","s","e","r","c","o","n","t","e","n","t",".","c","o","m">>

RAW_PREFIX == <<"h","t","t","p","s",":","/","/","r","a","w",".","g","i","t","h","u","b","u","s","e","r","c","o","n","t","e","n","t",".","c","o","m","/">>

LineTerminators == {"\n", "\r"}

\* last index of the longest run of characters other than "/" that starts at i
\* (i - 1 when the run is empty): the extent of a greedy [^\/]+
NotSlashRunEnd(s, i) ==
    LET stops == {j \in i..Len(s) : s[j] = "/"}
    IN  IF stops = {} THEN Len(s)
        ELSE (CHOOSE j \in stops : \A k \in stops : j <= k) - 1

\* last index of the longest run of characters other than line terminators that
\* starts at i: the extent of a greedy .*
DotRunEnd(s, i) ==
    LET stops == {j \in i..Len(s) : s[j] \in LineTerminators}
    IN  IF stops = {} THEN Len(s)
        ELSE (CHOOSE j \in stops : \A k \in stops : j <= k) - 1

\* /github\.com\/([^\/]+)\/([^\/]+)\/blob\/([^\/]+)\/?(.*)/ tried at index i:
\* <<owner, repo, ref, path>>, or <<>> when the pattern does not match there.
\* Every group but the last is followed by a literal "/", and the tail \/?(.*)
\* matches anything, so the greedy attempt is the only one.  The groups are
\* matched left to right: owner at a..aEnd, repo at b..bEnd, ref at r..rEnd,
\* path from p.
BlobPathGroup(s, a, aEnd, b, bEnd, r, rEnd, p) ==
    <<SubSeq(s, a, aEnd), SubSeq(s, b, bEnd), SubSeq(s, r, rEnd),
      SubSeq(s, p, DotRunEnd(s, p))>>

BlobRefGroup(s, a, aEnd, b, bEnd, r, rEnd) ==
    IF rEnd < r THEN <<>>
    ELSE BlobPathGroup(s, a, aEnd, b, bEnd, r, rEnd,
                       IF rEnd < Len(s) THEN rEnd + 2 ELSE rEnd + 1)

BlobRepoGroup(s, a, aEnd, b, bEnd) ==
    IF bEnd < b \/ ~StartsWithAt(s, bEnd + 1, BLOB) THEN <<>>
    ELSE BlobRefGroup(s, a, aEnd, b, bEnd, bEnd + 1 + Len(BLOB),
                      NotSlashRunEnd(s, bEnd + 1 + Len(BLOB)))

BlobOwnerGroup(s, a, aEnd) ==
    IF aEnd < a \/ aEnd >= Len(s) THEN <<>>
    ELSE BlobRepoGroup(s, a, aEnd, aEnd + 2, NotSlashRunEnd(s, aEnd + 2))

BlobPatternAt(s, i) ==
    IF ~StartsWithAt(s, i, GITHUB_COM \o <<"/">>) THEN <<>>
    ELSE BlobOwnerGroup(s, i + Len(GITHUB_COM) + 1,
                        NotSlashRunEnd(s, i + Len(GITHUB_COM) + 1))

\* String.prototype.match with that pattern: the leftmost index where it matches
Min(S) == CHOOSE i \in S : \A j \in S : i <= j

matchFrom(url, starts) ==
    IF starts = {} THEN null ELSE BlobPatternAt(url, Min(starts))

match(url) == matchFrom(url, {i \in 1..Len(url) : BlobPatternAt(url, i) # <<>>})

CommitHashLen == 40

HexDigits == {"0", "1", "2", "3", "4", "5", "6", "7", "8", "9",
              "a", "b", "c", "d", "e", "f", "A", "B", "C", "D", "E", "F"}

\* as isCommitHash, without the i flag
isCommitHashLowerOnly(ref) ==
    /\ Len(ref) = CommitHashLen
    /\ \A k \in 1..Len(ref) : ref[k] \in HexDigits \ {"A", "B", "C", "D", "E", "F"}

\* /^[a-f0-9]{40}$/i.test(ref)
isCommitHash(ref) ==
    /\ Len(ref) = CommitHashLen
    /\ \A k \in 1..Len(ref) : ref[k] \in HexDigits

\* as fallbackReplace, without the second replace
fallbackReplaceHostOnly(url) == replace(url, GITHUB_COM, RAW_HOST)

\* url.replace('github.com', 'raw.githubusercontent.com').replace('/blob/', '/')
fallbackReplace(url) == replace(replace(url, GITHUB_COM, RAW_HOST), BLOB, <<"/">>)

\* url.includes('github.com') && url.includes('/blob/')
isGitHubUrl(url) == includes(url, GITHUB_COM) /\ includes(url, BLOB)

\* the rewritten URL, given the result m of url.match(...)
convertedUrl(url, m) ==
    IF m # null
    THEN IF isCommitHash(m[3])
         THEN RAW_PREFIX \o m[1] \o <<"/">> \o m[2] \o <<"/">> \o m[3] \o <<"/">> \o m[4]
         ELSE RAW_PREFIX \o m[1] \o <<"/">> \o m[2] \o <<"/","r","e","f","s","/","h","e","a","d","s","/">> \o m[3] \o <<"/">> \o m[4]
    ELSE fallbackReplace(url)

handleGitHubUrl(url) ==
    IF isGitHubUrl(url)
    THEN [isGitHub |-> TRUE, convertedUrl |-> convertedUrl(url, match(url)),
          originalUrl |-> url, shouldBypassJina |-> TRUE]
    ELSE [isGitHub |-> FALSE, convertedUrl |-> url,
          originalUrl |-> url, shouldBypassJina |-> FALSE]

\* ------------------------------------------------------------------------
\* buildJinaHeaders
\* ------------------------------------------------------------------------

NoHeaders == [x \in {} |-> <<>>]

\* first switch: extraction mode settings
applyExtractionMode(baseHeaders, mode) ==
    CASE mode = "standard" ->
           Put(Put(Put(baseHeaders,
               "X-Engine", <<"d","i","r","e","c","t">>),
               "X-With-Links-Summary", <<"t","r","u","e">>),
               "X-Timeout", <<"1","0">>)
      [] mode = "comprehensive" ->
           Put(Put(Put(Put(baseHeaders,
               "X-Engine", <<"b","r","o","w","s","e","r">>),
               "X-With-Links-Summary", <<"t","r","u","e">>),
               "X-With-Images-Summary", <<"t","r","u","e">>),
               "X-Timeout", <<"1","5">>)
      [] mode = "clean_content" ->
           Put(Put(Put(Put(baseHeaders,
               "X-Engine", <<"b","r","o","w","s","e","r">>),
               "X-Target-Selector", <<"m","a","i","n",",","a","r","t","i","c","l","e",",",".","c","o","n","t","e","n","t">>),
               "X-Remove-Selector", <<"n","a","v",",","h","e","a","d","e","r",",","f","o","o","t","e","r",",",".","s","i","d","e","b","a","r",",",".","a","d","s">>),
               "X-Timeout", <<"1","5">>)
      [] OTHER -> baseHeaders

\* second switch: output format settings
applyOutputFormat(baseHeaders, format) ==
    CASE format = "default" -> baseHeaders
      [] format = "markdown" -> Put(baseHeaders, "X-Return-Format", <<"m","a","r","k","d","o","w","n">>)
      [] format = "text" -> Put(baseHeaders, "X-Return-Format", <<"t","e","x","t">>)
      [] format = "structured" ->
           Put(Put(Put(baseHeaders,
               "X-Return-Format", <<"m","a","r","k","d","o","w","n">>),
               "X-With-Links-Summary", <<"t","r","u","e">>),
               "X-With-Images-Summary", <<"t","r","u","e">>)
      [] OTHER -> baseHeaders

\* as buildJinaHeaders, with the images summary of comprehensive set for every mode
buildJinaHeadersLeaky(mode, format, isGitHub) ==
    Put(applyOutputFormat(applyExtractionMode(
            Put(Put(NoHeaders, "Content-Type", <<"a","p","p","l","i","c","a","t","i","o","n","/","j","s","o","n">>),
                "Accept", <<"a","p","p","l","i","c","a","t","i","o","n","/","j","s","o","n">>), mode), format),
        "X-With-Images-Summary", <<"t","r","u","e">>)

buildJinaHeaders(mode, format, isGitHub) ==
    LET baseHeaders == Put(Put(NoHeaders,
                           "Content-Type", <<"a","p","p","l","i","c","a","t","i","o","n","/","j","s","o","n">>),
                           "Accept", <<"a","p","p","l","i","c","a","t","i","o","n","/","j","s","o","n">>)
    IN  IF isGitHub
        THEN Put(Put(Put(baseHeaders,
                 "X-Engine", <<"d","i","r","e","c","t">>),
                 "X-Return-Format", <<"t","e","x","t">>),
                 "X-Timeout", <<"1","0">>)
        ELSE applyOutputFormat(applyExtractionMode(baseHeaders, mode), format)

\* ------------------------------------------------------------------------
\* JSON values: [t |-> type, v |-> payload]; an object is a sequence of
\* [k |-> key, v |-> value] members in source order
\* ------------------------------------------------------------------------

undefined == [t |-> "undefined", v |-> <<>>]

JNull == [t |-> "null", v |-> <<>>]

JStr(s) == [t |-> "string", v |-> s]

JNum(n) == [t |-> "number", v |-> n]

JObj(members) == [t |-> "object", v |-> members]

JArr(items) == [t |-> "array", v |-> items]

Member(k, v) == [k |-> k, v |-> v]

\* property read v[k] on a value that is neither null nor undefined
Prop(v, k) ==
    IF v.t = "object" /\ \E i \in 1..Len(v.v) : v.v[i].k = k
    THEN v.v[CHOOSE i \in 1..Len(v.v) : v.v[i].k = k].v
    ELSE undefined

\* ToBoolean
truthy(v) ==
    CASE v.t \in {"undefined", "null"} -> FALSE
      [] v.t = "string" -> v.v # <<>>
      [] v.t = "number" -> v.v # 0
      [] OTHER -> TRUE

RECURSIVE quoteChars(_)
quoteChars(s) ==
    IF s = <<>> THEN <<>>
    ELSE (IF Head(s) \in {"\"", "\\"} THEN <<"\\", Head(s)>>
          ELSE IF Head(s) = "\n" THEN <<"\\", "n">>
          ELSE <<Head(s)>>) \o quoteChars(Tail(s))

\* JSON string literal of s
quote(s) == <<"\"">> \o quoteChars(s) \o <<"\"">>

RECURSIVE spaces(_)
spaces(n) == IF n <= 0 THEN <<>> ELSE <<" ">> \o spaces(n - 1)

\* JSON.stringify(value, null, 2), at indentation ind
RECURSIVE stringify(_, _)
RECURSIVE stringifyItems(_, _, _)
stringifyItems(v, i, ind) ==
    LET item == IF v.t = "array" THEN stringify(v.v[i], ind)
                ELSE quote(v.v[i].k) \o <<":"," ">> \o stringify(v.v[i].v, ind)
    IN  spaces(ind) \o item \o
        (IF i < Len(v.v) THEN <<",","\n">> \o stringifyItems(v, i + 1, ind) ELSE <<>>)

stringify(v, ind) ==
    CASE v.t = "null" -> <<"n","u","l","l">>
      [] v.t = "string" -> quote(v.v)
      [] v.t = "number" -> toString(v.v)
      [] v.t = "array" ->
           IF Len(v.v) = 0 THEN <<"[","]">>
           ELSE <<"[","\n">> \o stringifyItems(v, 1, ind + 2) \o <<"\n">> \o spaces(ind) \o <<"]">>
      [] v.t = "object" ->
           IF Len(v.v) = 0 THEN <<"{","}">>
           ELSE <<"{","\n">> \o stringifyItems(v, 1, ind + 2) \o <<"\n">> \o spaces(ind) \o <<"}">>

\* JSON.stringify({ url })
stringifyUrlBody(url) == <<"{","\"","u","r","l","\"",":">> \o quote(url) \o <<"}">>

\* JSON.stringify({ statement, deepdive })
stringifyFactCheckBody(statement, deepdive) ==
    <<"{","\"","s","t","a","t","e","m","e","n","t","\"",":">> \o quote(statement) \o <<",","\"","d","e","e","p","d","i","v","e","\"",":">> \o
    (IF deepdive THEN <<"t","r","u","e">> ELSE <<"f","a","l","s","e">>) \o <<"}">>

\* The response bodies the remote side may send
BODY_CONTENT == <<"{","\"","d","a","t","a","\"",":","{","\"","c","o","n","t","e","n","t","\"",":","\"","h","i","\"","}","}">>

BODY_EMPTY_CONTENT == <<"{","\"","d","a","t","a","\"",":","{","\"","c","o","n","t","e","n","t","\"",":","\"","\"","}","}">>

BODY_NO_CONTENT == <<"{","\"","d","a","t","a","\"",":","{","\"","t","i","t","l","e","\"",":","\"","t","\"","}","}">>

BODY_NO_DATA == <<"{","\"","c","o","d","e","\"",":","2","0","0","}">>

BODY_NULL == <<"n","u","l","l">>

BODY_RESULTS == <<"{","\"","d","a","t","a","\"",":","[","{","\"","t","i","t","l","e","\"",":","\"","T","\"",",","\"","u","r","l","\"",":","\"","u","\"",",","\"","u","s","a","g","e","\"",":","{","\"","t","o","k","e","n","s","\"",":","1","}","}",",","{","\"","u","r","l","\"",":","\"","v","\"",",","\"","d","a","t","e","\"",":","\"","d","\"","}","]","}">>

BODY_NULL_RESULT == <<"{","\"","d","a","t","a","\"",":","[","n","u","l","l","]","}">>

BODY_NOT_JSON == <<"<","h","t","m","l",">">>

BODY_RAW == <<"#"," ","h","i","\n">>

\* JSON.parse: <<value>>, or <<>> for the SyntaxError on text that is not JSON
JSON_parse(text) ==
    CASE text = BODY_CONTENT ->
           <<JObj(<<Member(<<"d","a","t","a">>, JObj(<<Member(<<"c","o","n","t","e","n","t">>, JStr(<<"h","i">>))>>))>>)>>
      [] text = BODY_EMPTY_CONTENT ->
           <<JObj(<<Member(<<"d","a","t","a">>, JObj(<<Member(<<"c","o","n","t","e","n","t">>, JStr(<<>>))>>))>>)>>
      [] text = BODY_NO_CONTENT ->
           <<JObj(<<Member(<<"d","a","t","a">>, JObj(<<Member(<<"t","i","t","l","e">>, JStr(<<"t">>))>>))>>)>>
      [] text = BODY_NO_DATA ->
           <<JObj(<<Member(<<"c","o","d","e">>, JNum(200))>>)>>
      [] text = BODY_NULL -> <<JNull>>
      [] text = BODY_RESULTS ->
           <<JObj(<<Member(<<"d","a","t","a">>, JArr(<<
               JObj(<<Member(<<"t","i","t","l","e">>, JStr(<<"T">>)), Member(<<"u","r","l">>, JStr(<<"u">>)),
                      Member(<<"u","s","a","g","e">>, JObj(<<Member(<<"t","o","k","e","n","s">>, JNum(1))>>))>>),
               JObj(<<Member(<<"u","r","l">>, JStr(<<"v">>)), Member(<<"d","a","t","e">>, JStr(<<"d">>))>>)>>))>>)>>
      [] text = BODY_NULL_RESULT ->
           <<JObj(<<Member(<<"d","a","t","a">>, JArr(<<JNull>>))>>)>>
      [] OTHER -> <<>>

Error(message) == [message |-> message]

SYNTAX_ERROR == <<"U","n","e","x","p","e","c","t","e","d"," ","t","o","k","e","n"," ","<"," ","i","n"," ","J","S","O","N"," ","a","t"," ","p","o","s","i","t","i","o","n"," ","0">>

TYPE_ERROR_NULL == <<"C","a","n","n","o","t"," ","r","e","a","d"," ","p","r","o","p","e","r","t","i","e","s"," ","o","f"," ","n","u","l","l">>

TYPE_ERROR_MAP == <<"r","e","s","u","l","t","s",".","m","a","p"," ","i","s"," ","n","o","t"," ","a"," ","f","u","n","c","t","i","o","n">>

\* ------------------------------------------------------------------------
\* encodeURIComponent
\* ------------------------------------------------------------------------

Range(s) == {s[i] : i \in 1..Len(s)}

\* characters encodeURIComponent leaves alone
Unreserved ==
    Range(<<"a","b","c","d","e","f","g","h","i","j","k","l","m","n","o","p","q","r","s","t","u","v","w","x","y","z","A","B","C","D","E","F","G","H","I","J","K","L","M","N","O","P","Q","R","S","T","U","V","W","X","Y","Z","0","1","2","3","4","5","6","7","8","9","-","_",".","!","~","*","'","(",")">>)

\* a lone UTF-16 high surrogate, one code unit
LoneSurrogate == "<U+D800>"

HexUpper == <<"0", "1", "2", "3", "4", "5", "6", "7", "8", "9", "A", "B", "C", "D", "E", "F">>

\* code of the ASCII characters the inputs use outside Unreserved
CharCode(ch) ==
    CASE ch = " " -> 32 [] ch = "#" -> 35 [] ch = "&" -> 38 [] ch = "/" -> 47
      [] ch = ":" -> 58 [] ch = "=" -> 61 [] ch = "?" -> 63 [] OTHER -> 37

percentEncode(ch) ==
    <<"%", HexUpper[(CharCode(ch) \div 16) + 1], HexUpper[(CharCode(ch) % 16) + 1]>>

RECURSIVE encodeChars(_)
encodeChars(s) ==
    IF s = <<>> THEN <<>>
    ELSE (IF Head(s) \in Unreserved THEN <<Head(s)>> ELSE percentEncode(Head(s)))
         \o encodeChars(Tail(s))

URI_ERROR == <<"U","R","I"," ","m","a","l","f","o","r","m","e","d">>

\* encodeURIComponent: <<encoded>>, or <<>> for the URIError on a lone surrogate
encodeURIComponent(s) ==
    IF LoneSurrogate \in Range(s) THEN <<>> ELSE <<encodeChars(s)>>

\* ------------------------------------------------------------------------
\* Tool results and the handlers' steps
\* ------------------------------------------------------------------------

READER_ENDPOINT == <<"h","t","t","p","s",":","/","/","r",".","j","i","n","a",".","a","i","/">>

SEARCH_ENDPOINT == <<"h","t","t","p","s",":","/","/","s",".","j","i","n","a",".","a","i","/","?","q","=">>

FACT_CHECK_ENDPOINT == <<"h","t","t","p","s",":","/","/","g",".","j","i","n","a",".","a","i","/">>

\* { content: [{ type: "text", text }] }
TextResult(text) == [content |-> <<[type |-> "text", text |-> text]>>]

\* { content: [{ type: "text", text }], isError: true }
ErrorResult(text) ==
    [content |-> <<[type |-> "text", text |-> text]>>, isError |-> TRUE]

\* What a handler does next: call fetch and wait, wait for the body, return, throw
Fetch(request, l) == [kind |-> "fetch", request |-> request, locals |-> l]

AwaitBody == [kind |-> "body"]

Return(value) == [kind |-> "return", value |-> value]

Throw(message) == [kind |-> "throw", value |-> Error(message)]

Legacy == {"legacy_jina_reader", "legacy_jina_search", "jina_fact_check"}

\* as catch, for a handler whose try block does not cover the failure
catchRethrow(t, error) == [kind |-> "throw", value |-> error]

\* the catch clause that closes every handler's try block
catch(t, error) ==
    IF t \in Legacy
    THEN Return(ErrorResult(<<"E","r","r","o","r",":"," ">> \o error.message))
    ELSE Return(ErrorResult(error.message))

ok(status) == status >= 200 /\ status <= 299

\* as apiError, without the status
apiErrorNoStatus(name, status, errorText) == name \o <<" ","e","r","r","o","r",":"," ">> \o errorText

\* `Jina ... API error (${response.status}): ${errorText}`
apiError(name, status, errorText) ==
    name \o <<" ","e","r","r","o","r"," ","(">> \o toString(status) \o <<")",":"," ">> \o errorText

\* ------------------------------------------------------------------------
\* jina_reader (src/index.js)
\* ------------------------------------------------------------------------

\* if (customTimeout) jinaHeaders["X-Timeout"] = customTimeout.toString()
timeoutOverride(jinaHeaders, customTimeout) ==
    IF customTimeout # <<>> /\ customTimeout[1] # 0
    THEN Put(jinaHeaders, "X-Timeout", toString(customTimeout[1]))
    ELSE jinaHeaders

\* as bypassRequest, sending the reader's headers to the raw-content host
bypassRequestWithHeaders(actualUrl, a) ==
    [url |-> actualUrl, method |-> "GET",
     headers |-> createHeaders(buildJinaHeaders(a.mode, a.format, TRUE)), body |-> <<>>]

\* fetch(actualUrl)
bypassRequest(actualUrl, a) ==
    [url |-> actualUrl, method |-> "GET", headers |-> NoHeaders, body |-> <<>>]

readerRequest(actualUrl, a, isGitHub) ==
    [url |-> READER_ENDPOINT, method |-> "POST",
     headers |-> createHeaders(
                     timeoutOverride(buildJinaHeaders(a.mode, a.format, isGitHub),
                                     a.customTimeout)),
     body |-> <<stringifyUrlBody(actualUrl)>>]

\* as jina_reader_fetch, without the bypass
jina_reader_fetchNoBypass(a, g) == Fetch(readerRequest(g.convertedUrl, a, g.isGitHub), g)

\* the handler from the classification g of the URL to its fetch call
jina_reader_fetch(a, g) ==
    IF g.shouldBypassJina
    THEN Fetch(bypassRequest(g.convertedUrl, a), g)
    ELSE Fetch(readerRequest(g.convertedUrl, a, g.isGitHub), g)

jina_reader_start(a) == jina_reader_fetch(a, handleGitHubUrl(a.url))

jina_reader_onResponse(a, l, r) ==
    IF l.shouldBypassJina /\ ~ok(r.status)
    THEN Throw(<<"G","i","t","H","u","b"," ","A","P","I"," ","e","r","r","o","r"," ","(">> \o toString(r.status) \o <<")",":"," ">> \o r.statusText)
    ELSE AwaitBody

NO_CONTENT == <<"N","o"," ","c","o","n","t","e","n","t"," ","e","x","t","r","a","c","t","e","d">>

\* data.data || {}, then .content || "No content extracted"
\* value || fallback
orValue(value, fallback) == IF truthy(value) THEN value ELSE fallback

\* as contentOr, with ?? in place of ||
contentOrNullish(content) ==
    IF content.t \notin {"undefined", "null"} THEN content.v ELSE NO_CONTENT

\* responseData.content || "No content extracted"
contentOr(content) == IF truthy(content) THEN content.v ELSE NO_CONTENT

\* data.data || {}, then .content || "No content extracted"
readerResultText(data) ==
    contentOr(Prop(orValue(Prop(data, <<"d","a","t","a">>), JObj(<<>>)), <<"c","o","n","t","e","n","t">>))

\* the handler after await response.json() settled with `parsed`
jina_reader_onJson(parsed) ==
    IF parsed = <<>> THEN Throw(SYNTAX_ERROR)
    ELSE IF parsed[1].t = "null" THEN Throw(TYPE_ERROR_NULL)
    ELSE Return(TextResult(readerResultText(parsed[1])))

jina_reader_onBody(a, l, r, text) ==
    IF l.shouldBypassJina THEN Return(TextResult(text))
    ELSE IF ~ok(r.status) THEN Throw(apiError(<<"J","i","n","a"," ","R","e","a","d","e","r"," ","A","P","I">>, r.status, text))
    ELSE jina_reader_onJson(JSON_parse(text))

\* ------------------------------------------------------------------------
\* jina_search (src/index.js)
\* ------------------------------------------------------------------------

\* as searchHeaders, testing siteFilter !== undefined
searchHeadersAnyFilter(siteFilter) ==
    IF siteFilter # <<>>
    THEN Put(Put(NoHeaders, "X-Respond-With", <<"n","o","-","c","o","n","t","e","n","t">>),
             "X-Site", <<"h","t","t","p","s",":","/","/">> \o siteFilter[1])
    ELSE Put(NoHeaders, "X-Respond-With", <<"n","o","-","c","o","n","t","e","n","t">>)

searchHeaders(siteFilter) ==
    LET baseHeaders == Put(NoHeaders, "X-Respond-With", <<"n","o","-","c","o","n","t","e","n","t">>)
    IN  IF siteFilter # <<>> /\ siteFilter[1] # <<>>
        THEN Put(baseHeaders, "X-Site", <<"h","t","t","p","s",":","/","/">> \o siteFilter[1])
        ELSE baseHeaders

\* the handler from the encoded query to its fetch call
jina_search_fetch(a, encodedQuery) ==
    IF encodedQuery = <<>> THEN Throw(URI_ERROR)
    ELSE Fetch([url |-> SEARCH_ENDPOINT \o encodedQuery[1], method |-> "GET",
                headers |-> createHeaders(searchHeaders(a.siteFilter)),
                body |-> <<>>],
               [encodedQuery |-> encodedQuery[1]])

jina_search_start(a) == jina_search_fetch(a, encodeURIComponent(a.query))

jina_search_onResponse(a, l, r) == AwaitBody

jina_search_onBody(a, l, r, text) ==
    IF ~ok(r.status) THEN Throw(apiError(<<"J","i","n","a"," ","S","e","a","r","c","h"," ","A","P","I">>, r.status, text))
    ELSE Return(TextResult(text))

\* ------------------------------------------------------------------------
\* Legacy jina_reader (src/unnamed/part_000)
\* ------------------------------------------------------------------------

UpperCase == <<"A","B","C","D","E","F","G","H","I","J","K","L","M","N","O","P","Q","R","S","T","U","V","W","X","Y","Z">>

LowerCase == <<"a","b","c","d","e","f","g","h","i","j","k","l","m","n","o","p","q","r","s","t","u","v","w","x","y","z">>

\* String.prototype.toLowerCase
toLowerCase(s) ==
    [i \in 1..Len(s) |->
        IF s[i] \in Range(UpperCase)
        THEN LowerCase[CHOOSE k \in 1..Len(UpperCase) : UpperCase[k] = s[i]]
        ELSE s[i]]

legacy_jina_reader_start(a) ==
    Fetch([url |-> READER_ENDPOINT, method |-> "POST",
           headers |-> createHeaders(
               Put(Put(Put(Put(Put(NoHeaders,
                   "Content-Type", <<"a","p","p","l","i","c","a","t","i","o","n","/","j","s","o","n">>),
                   "Accept", <<"a","p","p","l","i","c","a","t","i","o","n","/","j","s","o","n">>),
                   "X-With-Links-Summary", IF a.withLinks THEN <<"t","r","u","e">> ELSE <<"f","a","l","s","e">>),
                   "X-With-Images-Summary", IF a.withImages THEN <<"t","r","u","e">> ELSE <<"f","a","l","s","e">>),
                   "X-Return-Format", toLowerCase(a.format))),
           body |-> <<stringifyUrlBody(a.url)>>],
          [none |-> TRUE])

legacy_jina_reader_onResponse(a, l, r) == AwaitBody

\* data.data && data.data.content ? data.data.content : JSON.stringify(data, null, 2)
legacyReaderText(data, inner) ==
    IF truthy(inner) /\ truthy(Prop(inner, <<"c","o","n","t","e","n","t">>))
    THEN Prop(inner, <<"c","o","n","t","e","n","t">>).v
    ELSE stringify(data, 0)

legacy_jina_reader_onJson(parsed) ==
    IF parsed = <<>> THEN Throw(SYNTAX_ERROR)
    ELSE IF parsed[1].t = "null" THEN Throw(TYPE_ERROR_NULL)
    ELSE Return(TextResult(legacyReaderText(parsed[1], Prop(parsed[1], <<"d","a","t","a">>))))

legacy_jina_reader_onBody(a, l, r, text) ==
    IF ~ok(r.status) THEN Throw(apiError(<<"J","i","n","a"," ","R","e","a","d","e","r"," ","A","P","I">>, r.status, text))
    ELSE legacy_jina_reader_onJson(JSON_parse(text))

\* ------------------------------------------------------------------------
\* Legacy jina_search (src/unnamed/part_000)
\* ------------------------------------------------------------------------

legacy_jina_search_fetch(a, encodedQuery) ==
    IF encodedQuery = <<>> THEN Throw(URI_ERROR)
    ELSE Fetch([url |-> SEARCH_ENDPOINT \o encodedQuery[1], method |-> "GET",
                headers |-> createHeaders(
                    Put(Put(NoHeaders,
                        "Accept", <<"a","p","p","l","i","c","a","t","i","o","n","/","j","s","o","n">>),
                        "X-Respond-With", <<"n","o","-","c","o","n","t","e","n","t">>)),
                body |-> <<>>],
               [encodedQuery |-> encodedQuery[1]])

legacy_jina_search_start(a) == legacy_jina_search_fetch(a, encodeURIComponent(a.query))

legacy_jina_search_onResponse(a, l, r) == AwaitBody

\* `${x}` of a property value
interpolate(v) ==
    CASE v.t = "string" -> v.v
      [] v.t = "number" -> toString(v.v)
      [] OTHER -> <<"[","o","b","j","e","c","t"," ","O","b","j","e","c","t","]">>

\* `${result[k] || fallback}`
orElse(item, k, fallback) ==
    IF truthy(Prop(item, k)) THEN interpolate(Prop(item, k)) ELSE fallback

\* `${result.date ? `Date: ${result.date}` : ''}`
dateLine(item) ==
    IF truthy(Prop(item, <<"d","a","t","e">>)) THEN <<"D","a","t","e",":"," ">> \o interpolate(Prop(item, <<"d","a","t","e">>))
    ELSE <<>>

markdownItem(item, index) ==
    toString(index + 1) \o <<"."," ","*","*">> \o orElse(item, <<"t","i","t","l","e">>, <<"U","n","t","i","t","l","e","d">>) \o <<"*","*","\n"," "," "," ">>
    \o orElse(item, <<"u","r","l">>, <<>>) \o <<"\n"," "," "," ">> \o orElse(item, <<"d","e","s","c","r","i","p","t","i","o","n">>, <<>>)
    \o <<"\n"," "," "," ">> \o dateLine(item) \o <<"\n">>

htmlItem(item, index) ==
    <<"<","l","i",">","<","s","t","r","o","n","g",">">> \o orElse(item, <<"t","i","t","l","e">>, <<"U","n","t","i","t","l","e","d">>) \o <<"<","/","s","t","r","o","n","g",">","<","b","r",">","\n"," "," "," "," "," "," "," "," "," "," "," ","<","a"," ","h","r","e","f","=","\"">>
    \o orElse(item, <<"u","r","l">>, <<>>) \o <<"\"",">">> \o orElse(item, <<"u","r","l">>, <<>>)
    \o <<"<","/","a",">","<","b","r",">","\n"," "," "," "," "," "," "," "," "," "," "," ">> \o orElse(item, <<"d","e","s","c","r","i","p","t","i","o","n">>, <<>>)
    \o <<"<","b","r",">","\n"," "," "," "," "," "," "," "," "," "," "," ">> \o dateLine(item) \o <<"<","/","l","i",">">>

textItem(item, index) ==
    toString(index + 1) \o <<"."," ">> \o orElse(item, <<"t","i","t","l","e">>, <<"U","n","t","i","t","l","e","d">>) \o <<"\n"," "," "," ">>
    \o orElse(item, <<"u","r","l">>, <<>>) \o <<"\n"," "," "," ">> \o orElse(item, <<"d","e","s","c","r","i","p","t","i","o","n">>, <<>>)
    \o <<"\n"," "," "," ">> \o dateLine(item)

formatItem(returnFormat, item, index) ==
    CASE returnFormat = "markdown" -> markdownItem(item, index)
      [] returnFormat = "html" -> htmlItem(item, index)
      [] OTHER -> textItem(item, index)

\* results.map(...).join(separator), from item i (1-based) on
RECURSIVE mapJoin(_, _, _, _)
mapJoin(returnFormat, results, i, separator) ==
    IF i > Len(results) THEN <<>>
    ELSE formatItem(returnFormat, results[i], i - 1)
         \o (IF i < Len(results) THEN separator ELSE <<>>)
         \o mapJoin(returnFormat, results, i + 1, separator)

formatResults(returnFormat, results) ==
    CASE returnFormat = "markdown" -> mapJoin(returnFormat, results, 1, <<"\n">>)
      [] returnFormat = "html" -> <<"<","o","l",">">> \o mapJoin(returnFormat, results, 1, <<>>) \o <<"<","/","o","l",">">>
      [] OTHER -> mapJoin(returnFormat, results, 1, <<"\n", "\n">>)

\* results.map(...): reading result.usage throws on a null item
legacySearchFormat(a, results) ==
    IF \E i \in 1..Len(results) : results[i].t \in {"null", "undefined"}
    THEN Throw(TYPE_ERROR_NULL)
    ELSE Return(TextResult(formatResults(a.returnFormat, results)))

\* if (count && count > 0 && results.length > count) results = results.slice(0, count)
legacySearchSlice(a, found) ==
    IF found.t # "array" THEN Throw(TYPE_ERROR_MAP)
    ELSE legacySearchFormat(a,
             IF a.count # 0 /\ a.count > 0 /\ Len(found.v) > a.count
             THEN SubSeq(found.v, 1, a.count) ELSE found.v)

legacy_jina_search_onJson(a, parsed) ==
    IF parsed = <<>> THEN Throw(SYNTAX_ERROR)
    ELSE IF parsed[1].t = "null" THEN Throw(TYPE_ERROR_NULL)
    ELSE legacySearchSlice(a, orValue(Prop(parsed[1], <<"d","a","t","a">>), JArr(<<>>)))

legacy_jina_search_onBody(a, l, r, text) ==
    IF ~ok(r.status) THEN Throw(apiError(<<"J","i","n","a"," ","S","e","a","r","c","h"," ","A","P","I">>, r.status, text))
    ELSE legacy_jina_search_onJson(a, JSON_parse(text))

\* ------------------------------------------------------------------------
\* jina_fact_check (src/unnamed/part_000)
\* ------------------------------------------------------------------------

jina_fact_check_start(a) ==
    Fetch([url |-> FACT_CHECK_ENDPOINT, method |-> "POST",
           headers |-> createHeaders(
               Put(Put(NoHeaders,
                   "Content-Type", <<"a","p","p","l","i","c","a","t","i","o","n","/","j","s","o","n">>),
                   "Accept", <<"a","p","p","l","i","c","a","t","i","o","n","/","j","s","o","n">>)),
           body |-> <<stringifyFactCheckBody(a.statement, a.deepdive)>>],
          [none |-> TRUE])

jina_fact_check_onResponse(a, l, r) == AwaitBody

jina_fact_check_onJson(parsed) ==
    IF parsed = <<>> THEN Throw(SYNTAX_ERROR)
    ELSE Return(TextResult(stringify(parsed[1], 0)))

jina_fact_check_onBody(a, l, r, text) ==
    IF ~ok(r.status) THEN Throw(apiError(<<"J","i","n","a"," ","F","a","c","t","-","C","h","e","c","k"," ","A","P","I">>, r.status, text))
    ELSE jina_fact_check_onJson(JSON_parse(text))

\* ------------------------------------------------------------------------
\* Inputs: validated parameters, environment values, what the remote side sends
\* ------------------------------------------------------------------------

\* largest customTimeout tried, besides the fixed ones
MaxTimeout == 1

\* invocations the tool registry may have in flight at once
Calls == {1, 2}

Keys == {<<>>, <<<<>>>>, <<<<"j","i","n","a","_","k">>>>}

RECURSIVE Rep(_, _)
Rep(ch, n) == IF n <= 0 THEN <<>> ELSE <<ch>> \o Rep(ch, n - 1)

Owners == {<<"a","c","m","e">>}

Repos == {<<"r","e","p","o">>}

Refs == {<<"m","a","i","n">>,
         Rep("a", CommitHashLen - 1) \o <<"9">>,
         Rep("A", CommitHashLen - 1) \o <<"f">>,
         Rep("a", CommitHashLen - 1),
         Rep("a", CommitHashLen + 1),
         Rep("a", CommitHashLen - 1) \o <<"g">>}

Paths == {<<>>, <<"R","E","A","D","M","E",".","m","d">>, <<"s","r","c","/","i","n","d","e","x",".","j","s">>}

BlobUrl(prefix, owner, repo, ref, path) ==
    prefix \o GITHUB_COM \o <<"/">> \o owner \o <<"/">> \o repo \o BLOB \o ref
    \o <<"/">> \o path

\* URLs of the shape github.com/<owner>/<repo>/blob/<ref>/<path>
BlobUrls ==
    {BlobUrl(<<"h","t","t","p","s",":","/","/">>, o, r, f, p) : o \in Owners, r \in Repos, f \in Refs, p \in Paths}
    \cup {BlobUrl(<<"h","t","t","p",":","/","/","w","w","w",".">>, <<"a","c","m","e">>, <<"b","l","o","b">>, <<"v","1",".","0">>, <<"b","l","o","b","/","x",".","m","d">>)}

URL_NO_PATH == <<"h","t","t","p","s",":","/","/","g","i","t","h","u","b",".","c","o","m","/","a","c","m","e","/","r","e","p","o","/","b","l","o","b","/","m","a","i","n">>

URL_NO_REF == <<"h","t","t","p","s",":","/","/","g","i","t","h","u","b",".","c","o","m","/","a","c","m","e","/","r","e","p","o","/","b","l","o","b","/">>

URL_NO_REPO == <<"h","t","t","p","s",":","/","/","g","i","t","h","u","b",".","c","o","m","/","a","c","m","e","/","b","l","o","b","/","m","a","i","n","/","x">>

URL_NO_OWNER == <<"h","t","t","p","s",":","/","/","g","i","t","h","u","b",".","c","o","m","/","b","l","o","b","/","x">>

URL_REPO_PAGE == <<"h","t","t","p","s",":","/","/","g","i","t","h","u","b",".","c","o","m","/","a","c","m","e","/","r","e","p","o">>

URL_PLAIN == <<"h","t","t","p","s",":","/","/","e","x","a","m","p","l","e",".","c","o","m","/">>

URL_PLAIN_BLOB == <<"h","t","t","p","s",":","/","/","e","x","a","m","p","l","e",".","c","o","m","/","b","l","o","b","/","x">>

URL_FOREIGN_FALLBACK == <<"h","t","t","p","s",":","/","/","e","x","a","m","p","l","e",".","c","o","m","/","b","l","o","b","/","g","i","t","h","u","b",".","c","o","m">>

URL_FOREIGN_MATCH == <<"h","t","t","p","s",":","/","/","e","x","a","m","p","l","e",".","c","o","m","/","?","u","=","g","i","t","h","u","b",".","c","o","m","/","a","c","m","e","/","r","e","p","o","/","b","l","o","b","/","m","a","i","n","/","x">>

OtherUrls == {URL_NO_PATH, URL_NO_REF, URL_NO_REPO, URL_NO_OWNER, URL_REPO_PAGE,
              URL_PLAIN, URL_PLAIN_BLOB, URL_FOREIGN_FALLBACK, URL_FOREIGN_MATCH}

Urls == BlobUrls \cup OtherUrls

FewUrls == {BlobUrl(<<"h","t","t","p","s",":","/","/">>, <<"a","c","m","e">>, <<"r","e","p","o">>, <<"m","a","i","n">>, <<"R","E","A","D","M","E",".","m","d">>), URL_PLAIN}

Timeouts == {<<>>, <<120>>} \cup {<<n>> : n \in 0..MaxTimeout}

ReaderArgs ==
    [url : Urls, mode : ExtractionMode, format : OutputFormat, customTimeout : Timeouts]

FewReaderArgs ==
    [url : FewUrls, mode : {"standard"}, format : {"default", "structured"},
     customTimeout : {<<>>, <<120>>}]

SomeReaderArgs ==
    [url : FewUrls \cup {URL_FOREIGN_FALLBACK}, mode : ExtractionMode,
     format : {"default", "structured"}, customTimeout : {<<>>, <<0>>, <<120>>}]

Queries == {<<"q">>, <<"a"," ","b","&","c">>, <<"x", LoneSurrogate>>}

SearchArgs ==
    [query : Queries, count : {1, 5}, siteFilter : {<<>>, <<<<>>>>, <<<<"g","i","t","h","u","b",".","c","o","m">>>>}]

FewSearchArgs ==
    [query : {<<"q">>, <<"x", LoneSurrogate>>}, count : {5}, siteFilter : {<<>>, <<<<"g","i","t","h","u","b",".","c","o","m">>>>}]

LegacyReaderArgs ==
    [url : {URL_PLAIN, URL_NO_PATH}, format : {<<"M","a","r","k","d","o","w","n">>, <<"H","T","M","L">>},
     withLinks : BOOLEAN, withImages : {FALSE}]

FewLegacyReaderArgs ==
    [url : {URL_PLAIN}, format : {<<"M","a","r","k","d","o","w","n">>}, withLinks : {TRUE}, withImages : {FALSE}]

LegacySearchArgs ==
    [query : Queries, count : {0, 1, 5}, returnFormat : {"markdown", "html", "text"}]

FewLegacySearchArgs ==
    [query : {<<"q">>}, count : {1}, returnFormat : {"markdown"}]

FactCheckArgs == [statement : {<<"s","k","y"," ","i","s"," ","b","l","u","e">>}, deepdive : BOOLEAN]

FewFactCheckArgs == [statement : {<<"s","k","y"," ","i","s"," ","b","l","u","e">>}, deepdive : {FALSE}]

Statuses == {200, 404, 503}

FewStatuses == {200, 404}

statusText(status) ==
    CASE status = 200 -> <<"O","K">>
      [] status = 404 -> <<"N","o","t"," ","F","o","u","n","d">>
      [] OTHER -> <<"S","e","r","v","i","c","e"," ","U","n","a","v","a","i","l","a","b","l","e">>

Bodies == {BODY_CONTENT, BODY_EMPTY_CONTENT, BODY_NO_CONTENT, BODY_NO_DATA, BODY_NULL,
           BODY_RESULTS, BODY_NULL_RESULT, BODY_NOT_JSON, BODY_RAW}

FewBodies == {BODY_CONTENT, BODY_NOT_JSON}

SomeBodies == {BODY_CONTENT, BODY_EMPTY_CONTENT, BODY_NOT_JSON, BODY_RAW}

\* message of the error a failed fetch rejects with
FETCH_FAILED == <<"r","e","q","u","e","s","t"," ","f","a","i","l","e","d",","," ","r","e","a","s","o","n",":"," ","s","o","c","k","e","t"," ","h","a","n","g"," ","u","p">>

\* message of the error a failed body read rejects with
BODY_FAILED == <<"I","n","v","a","l","i","d"," ","r","e","s","p","o","n","s","e"," ","b","o","d","y",":"," ","P","r","e","m","a","t","u","r","e"," ","c","l","o","s","e">>

\* ------------------------------------------------------------------------
\* The invocations
\* ------------------------------------------------------------------------

Init ==
    /\ JINA_API_KEY \in Keys
    /\ pc = [c \in Calls |-> "idle"]
    /\ tool = [c \in Calls |-> "none"]
    /\ args = [c \in Calls |-> <<>>]
    /\ locals = [c \in Calls |-> <<>>]
    /\ fetched = [c \in Calls |-> <<>>]
    /\ response = [c \in Calls |-> <<>>]
    /\ result = [c \in Calls |-> <<>>]

start(t, a) ==
    CASE t = "jina_reader" -> jina_reader_start(a)
      [] t = "jina_search" -> jina_search_start(a)
      [] t = "legacy_jina_reader" -> legacy_jina_reader_start(a)
      [] t = "legacy_jina_search" -> legacy_jina_search_start(a)
      [] t = "jina_fact_check" -> jina_fact_check_start(a)

onResponse(t, a, l, r) ==
    CASE t = "jina_reader" -> jina_reader_onResponse(a, l, r)
      [] t = "jina_search" -> jina_search_onResponse(a, l, r)
      [] t = "legacy_jina_reader" -> legacy_jina_reader_onResponse(a, l, r)
      [] t = "legacy_jina_search" -> legacy_jina_search_onResponse(a, l, r)
      [] t = "jina_fact_check" -> jina_fact_check_onResponse(a, l, r)

onBody(t, a, l, r, text) ==
    CASE t = "jina_reader" -> jina_reader_onBody(a, l, r, text)
      [] t = "jina_search" -> jina_search_onBody(a, l, r, text)
      [] t = "legacy_jina_reader" -> legacy_jina_reader_onBody(a, l, r, text)
      [] t = "legacy_jina_search" -> legacy_jina_search_onBody(a, l, r, text)
      [] t = "jina_fact_check" -> jina_fact_check_onBody(a, l, r, text)

\* the try block: a throw inside it goes to the catch clause
try(t, step) == IF step.kind = "throw" THEN catch(t, step.value) ELSE step

\* The registry calls handler t with parameters a: the handler runs to its
\* first await (the fetch call), or settles if it fails before it.
Begin(c, t, a, step) ==
    /\ tool' = [tool EXCEPT ![c] = t]
    /\ args' = [args EXCEPT ![c] = a]
    /\ IF step.kind = "fetch"
       THEN /\ pc' = [pc EXCEPT ![c] = "fetch"]
            /\ fetched' = [fetched EXCEPT ![c] = Append(@, step.request)]
            /\ locals' = [locals EXCEPT ![c] = step.locals]
            /\ result' = result
       ELSE /\ pc' = [pc EXCEPT ![c] = "done"]
            /\ result' = [result EXCEPT ![c] = <<step>>]
            /\ UNCHANGED <<fetched, locals>>
    /\ UNCHANGED <<JINA_API_KEY, response>>

Invoke(c, t, a) == Begin(c, t, a, try(t, start(t, a)))

jina_reader(c, a) ==
    /\ pc[c] = "idle"
    /\ Invoke(c, "jina_reader", a)

jina_search(c, a) ==
    /\ pc[c] = "idle"
    /\ Invoke(c, "jina_search", a)

legacy_jina_reader(c, a) ==
    /\ pc[c] = "idle"
    /\ Invoke(c, "legacy_jina_reader", a)

legacy_jina_search(c, a) ==
    /\ pc[c] = "idle"
    /\ Invoke(c, "legacy_jina_search", a)

jina_fact_check(c, a) ==
    /\ pc[c] = "idle"
    /\ Invoke(c, "jina_fact_check", a)

\* The handler resumes with `step` after an await settled
Resume(c, step) ==
    /\ IF step.kind = "body"
       THEN /\ pc' = [pc EXCEPT ![c] = "body"]
            /\ result' = result
       ELSE /\ pc' = [pc EXCEPT ![c] = "done"]
            /\ result' = [result EXCEPT ![c] = <<step>>]
    /\ UNCHANGED <<JINA_API_KEY, tool, args, locals, fetched>>

\* await fetch(...) rejects: connection, DNS or transport failure
FetchRejects(c) ==
    /\ pc[c] = "fetch"
    /\ response' = [response EXCEPT ![c] =
           <<[status |-> 0, statusText |-> <<>>, failed |-> "fetch", body |-> <<>>]>>]
    /\ Resume(c, try(tool[c], Throw(FETCH_FAILED)))

\* await fetch(...) resolves with a response of the given status
Resolved(c, r) ==
    /\ response' = [response EXCEPT ![c] = <<r>>]
    /\ Resume(c, try(tool[c], onResponse(tool[c], args[c], locals[c], r)))

FetchResolves(c, status) ==
    /\ pc[c] = "fetch"
    /\ Resolved(c, [status |-> status, statusText |-> statusText(status),
                    failed |-> "", body |-> <<>>])

\* await response.text() / response.json() rejects: the body stream fails
BodyRejects(c) ==
    /\ pc[c] = "body"
    /\ response' = [response EXCEPT ![c] = <<[@[1] EXCEPT !.failed = "body"]>>]
    /\ Resume(c, try(tool[c], Throw(BODY_FAILED)))

\* the body arrives whole
BodyResolves(c, text) ==
    /\ pc[c] = "body"
    /\ response' = [response EXCEPT ![c] = <<[@[1] EXCEPT !.body = <<text>>]>>]
    /\ Resume(c, try(tool[c], onBody(tool[c], args[c], locals[c], response[c][1], text)))

\* Concurrent invocations of every tool
Next ==
    \E c \in Calls :
        \/ \E a \in FewReaderArgs : jina_reader(c, a)
        \/ \E a \in FewSearchArgs : jina_search(c, a)
        \/ \E a \in FewLegacyReaderArgs : legacy_jina_reader(c, a)
        \/ \E a \in FewLegacySearchArgs : legacy_jina_search(c, a)
        \/ \E a \in FewFactCheckArgs : jina_fact_check(c, a)
        \/ FetchRejects(c)
        \/ \E status \in FewStatuses : FetchResolves(c, status)
        \/ BodyRejects(c)
        \/ \E text \in FewBodies : BodyResolves(c, text)

Spec == Init /\ [][Next]_vars

\* One invocation of any tool, with every response
NextTools ==
    \/ \E a \in SomeReaderArgs : jina_reader(1, a)
    \/ \E a \in SearchArgs : jina_search(1, a)
    \/ \E a \in LegacyReaderArgs : legacy_jina_reader(1, a)
    \/ \E a \in LegacySearchArgs : legacy_jina_search(1, a)
    \/ \E a \in FactCheckArgs : jina_fact_check(1, a)
    \/ FetchRejects(1)
    \/ \E status \in Statuses : FetchResolves(1, status)
    \/ BodyRejects(1)
    \/ \E text \in Bodies : BodyResolves(1, text)

SpecTools == Init /\ [][NextTools]_vars

\* One invocation of jina_reader, with every URL, mode, format and timeout
NextReader ==
    \/ \E a \in ReaderArgs : jina_reader(1, a)
    \/ FetchRejects(1)
    \/ \E status \in FewStatuses : FetchResolves(1, status)
    \/ BodyRejects(1)
    \/ \E text \in SomeBodies : BodyResolves(1, text)

SpecReader == Init /\ [][NextReader]_vars

\* ------------------------------------------------------------------------
\* Properties
\* ------------------------------------------------------------------------

\* the handler of invocation c has begun
Invoked(c) == pc[c] # "idle"

\* the handler of invocation c has returned a tool result
Returned(c) == pc[c] = "done" /\ Len(result[c]) = 1 /\ result[c][1].kind = "return"

\* the one text of a returned tool result
ResultText(c) == result[c][1].value.content[1].text

IsErrorResult(c) ==
    "isError" \in DOMAIN result[c][1].value /\ result[c][1].value.isError = TRUE

Resp(c) == response[c][1]

\* invocation c is a jina_reader call on the bypass path / on the normal path
Bypass(c) == Invoked(c) /\ tool[c] = "jina_reader" /\ locals[c].shouldBypassJina

NormalRead(c) == Invoked(c) /\ tool[c] = "jina_reader" /\ ~locals[c].shouldBypassJina

\* the handler of c parses the 2xx body as JSON
ParsesJson(c) ==
    \/ tool[c] \in {"legacy_jina_reader", "legacy_jina_search", "jina_fact_check"}
    \/ NormalRead(c)

\* the query of a search call cannot be URL-encoded
EncodeFails(c) ==
    /\ Invoked(c)
    /\ tool[c] \in {"jina_search", "legacy_jina_search"}
    /\ LoneSurrogate \in Range(args[c].query)

\* the text a handler returns for an error with this message
ErrorText(c, message) == IF tool[c] \in Legacy THEN <<"E","r","r","o","r",":"," ">> \o message ELSE message

\* the JSON bodies of the shape the endpoint of c's tool answers with
WellFormedBodies(c) ==
    IF tool[c] = "legacy_jina_search" THEN {BODY_RESULTS}
    ELSE {BODY_CONTENT, BODY_EMPTY_CONTENT, BODY_NO_CONTENT, BODY_NO_DATA}

\* C1: every invocation ends by returning a result, never by throwing; a failed
\* fetch, a failed body read, a non-2xx status, a body that is not JSON where JSON
\* is parsed, and a query that cannot be encoded each give isError = true with
\* one text segment carrying the error's message; a 2xx response whose body the
\* handler can use gives one text segment and no isError.
C1_ErrorsContained ==
    \A c \in Calls :
        /\ (pc[c] # "done" => result[c] = <<>>)
        /\ (pc[c] = "done" =>
              /\ Returned(c)
              /\ Len(result[c][1].value.content) = 1
              /\ result[c][1].value.content[1].type = "text"
              /\ DOMAIN result[c][1].value \subseteq {"content", "isError"}
              /\ (EncodeFails(c) =>
                    IsErrorResult(c) /\ ResultText(c) = ErrorText(c, URI_ERROR))
              /\ (response[c] # <<>> /\ Resp(c).failed = "fetch" =>
                    IsErrorResult(c) /\ ResultText(c) = ErrorText(c, FETCH_FAILED))
              /\ (response[c] # <<>> /\ Resp(c).failed = "body" =>
                    IsErrorResult(c) /\ ResultText(c) = ErrorText(c, BODY_FAILED))
              /\ (response[c] # <<>> /\ Resp(c).failed = "" /\ ~ok(Resp(c).status) =>
                    IsErrorResult(c))
              /\ (response[c] # <<>> /\ Resp(c).failed = "" /\ ok(Resp(c).status)
                    /\ ParsesJson(c) /\ JSON_parse(Resp(c).body[1]) = <<>> =>
                    IsErrorResult(c) /\ ResultText(c) = ErrorText(c, SYNTAX_ERROR))
              /\ (response[c] # <<>> /\ Resp(c).failed = "" /\ ok(Resp(c).status)
                    /\ (ParsesJson(c) => Resp(c).body[1] \in WellFormedBodies(c)) =>
                    ~IsErrorResult(c) /\ "isError" \notin DOMAIN result[c][1].value))

\* C1 witness: jina_reader got a 2xx response whose body is not JSON and returned
\* the parse error as an error result
C1_Witness ==
    \E c \in Calls :
        /\ NormalRead(c) /\ Returned(c)
        /\ Resp(c).status = 200 /\ Resp(c).body = <<BODY_NOT_JSON>>
        /\ result[c][1].value = ErrorResult(SYNTAX_ERROR)

\* the response of c arrived with a non-2xx status
Refused(c) ==
    pc[c] = "done" /\ response[c] # <<>> /\ Resp(c).failed # "fetch" /\ ~ok(Resp(c).status)

\* C2 (as claimed): for every endpoint, a non-2xx response gives isError = true
\* and a text that contains the decimal status code
C2_StatusInErrorText ==
    \A c \in Calls :
        Refused(c) =>
            /\ Returned(c)
            /\ IsErrorResult(c)
            /\ includes(ResultText(c), toString(Resp(c).status))

\* C2 (amended): a non-2xx response gives isError = true; the text contains the
\* decimal status code, in parentheses, followed by the error body, when the
\* error body was read, and on the bypass path, which does not read it, followed
\* by the status text; when reading the error body of the reader, search or
\* fact-check endpoint fails, the text is the message of that failure instead.
C2_StatusInErrorTextWhenBodyRead ==
    \A c \in Calls :
        Refused(c) =>
            /\ Returned(c)
            /\ IsErrorResult(c)
            /\ (Bypass(c) =>
                  includes(ResultText(c),
                           <<"(">> \o toString(Resp(c).status) \o <<")",":"," ">> \o Resp(c).statusText))
            /\ (~Bypass(c) /\ Resp(c).failed = "" =>
                  includes(ResultText(c),
                           <<"(">> \o toString(Resp(c).status) \o <<")",":"," ">> \o Resp(c).body[1]))
            /\ (~Bypass(c) /\ Resp(c).failed = "body" =>
                  ResultText(c) = ErrorText(c, BODY_FAILED))

\* C2 witness: the fact-check endpoint answered 503 and the result names the status
C2_Witness ==
    \E c \in Calls :
        /\ tool[c] = "jina_fact_check" /\ Refused(c) /\ Returned(c)
        /\ Resp(c).status = 503 /\ Resp(c).failed = ""
        /\ IsErrorResult(c)
        /\ includes(ResultText(c), <<"5","0","3">>)

\* C3 (as claimed): every invocation that has returned made exactly one fetch call
C3_ExactlyOneFetch ==
    \A c \in Calls : pc[c] = "done" => Len(fetched[c]) = 1

\* C3 (amended): an invocation makes at most one fetch call, and exactly one
\* unless the search query cannot be URL-encoded, in which case it makes none and
\* returns an error result; the bypass path sends one GET to the rewritten URL and
\* nothing to the reader endpoint, the normal read path one POST to the reader
\* endpoint, search one GET to the search endpoint; and two invocations of the
\* same tool with the same parameters and the same response have made the same
\* request and returned the same result, whatever the other one did meanwhile.
C3_OneFetchPerInvocation ==
    /\ \A c \in Calls :
        /\ Len(fetched[c]) <= 1
        /\ (Invoked(c) /\ ~EncodeFails(c) => Len(fetched[c]) = 1)
        /\ (EncodeFails(c) => fetched[c] = <<>> /\ Returned(c) /\ IsErrorResult(c))
        /\ (~Invoked(c) => fetched[c] = <<>>)
        /\ (Bypass(c) =>
              /\ fetched[c][1].method = "GET"
              /\ fetched[c][1].url = locals[c].convertedUrl
              /\ fetched[c][1].headers = NoHeaders /\ fetched[c][1].body = <<>>
              /\ fetched[c][1].url # READER_ENDPOINT)
        /\ (NormalRead(c) =>
              fetched[c][1].method = "POST" /\ fetched[c][1].url = READER_ENDPOINT)
        /\ (Invoked(c) /\ tool[c] = "jina_search" /\ ~EncodeFails(c) =>
              /\ fetched[c][1].method = "GET"
              /\ StartsWithAt(fetched[c][1].url, 1, <<"h","t","t","p","s",":","/","/","s",".","j","i","n","a",".","a","i","/","?","q","=">>))
    /\ \A c, d \in Calls :
        (Invoked(c) /\ Invoked(d) /\ tool[c] = tool[d] /\ args[c] = args[d]
           /\ response[c] = response[d] /\ pc[c] = pc[d]) =>
            fetched[c] = fetched[d] /\ result[c] = result[d] /\ locals[c] = locals[d]

\* C3 witness: two invocations in flight at once, a bypass read that has returned
\* and a search still awaiting its response, one fetch call each
C3_Witness ==
    \E c, d \in Calls :
        /\ Bypass(c) /\ Returned(c) /\ ~IsErrorResult(c) /\ Len(fetched[c]) = 1
        /\ tool[d] = "jina_search" /\ pc[d] = "fetch" /\ Len(fetched[d]) = 1

HasAuthorization(request) == "Authorization" \in DOMAIN request.headers

KeyConfigured == JINA_API_KEY # <<>> /\ JINA_API_KEY[1] # <<>>

\* C4 (as claimed): with a key configured every request, of jina_reader too
\* whatever its URL, carries Authorization: Bearer <key>; without one no request does
C4_AuthorizationOnEveryRequest ==
    \A c \in Calls : \A i \in 1..Len(fetched[c]) :
        IF KeyConfigured
        THEN HasAuthorization(fetched[c][i])
             /\ fetched[c][i].headers["Authorization"] = <<"B","e","a","r","e","r"," ">> \o JINA_API_KEY[1]
        ELSE ~HasAuthorization(fetched[c][i])

\* C4 (amended): without a key (unset or empty) no request carries Authorization;
\* with a key every request to the reader, search and fact-check endpoints carries
\* Authorization: Bearer <key>, and the GET of jina_reader's bypass path carries none
C4_AuthorizationOnJinaRequests ==
    \A c \in Calls : \A i \in 1..Len(fetched[c]) :
        IF KeyConfigured /\ ~Bypass(c)
        THEN HasAuthorization(fetched[c][i])
             /\ fetched[c][i].headers["Authorization"] = <<"B","e","a","r","e","r"," ">> \o JINA_API_KEY[1]
        ELSE ~HasAuthorization(fetched[c][i])

\* C4 witness: with a key configured, a request to the reader endpoint carries it
C4_Witness ==
    \E c \in Calls :
        /\ JINA_API_KEY = <<<<"j","i","n","a","_","k">>>>
        /\ NormalRead(c) /\ Len(fetched[c]) = 1
        /\ fetched[c][1].headers["Authorization"] = <<"B","e","a","r","e","r"," ","j","i","n","a","_","k">>

\* C5: on the bypass path the one request is a GET of the rewritten URL with no
\* headers and no body, the same for every mode, format and customTimeout; a 2xx
\* response whose body is read makes the result that body text, verbatim, as the
\* one text segment and without isError.
C5_BypassPlainGet ==
    \A c \in Calls :
        Bypass(c) =>
            /\ fetched[c] = <<[url |-> locals[c].convertedUrl, method |-> "GET",
                               headers |-> NoHeaders, body |-> <<>>]>>
            /\ (pc[c] = "done" /\ ok(Resp(c).status) /\ Resp(c).failed = "" =>
                  result[c] = <<[kind |-> "return",
                                 value |-> [content |-> <<[type |-> "text",
                                                           text |-> Resp(c).body[1]]>>]]>>)

\* C5 witness: a bypass read asked for comprehensive mode, structured format and a
\* custom timeout, and returned the raw file
C5_Witness ==
    \E c \in Calls :
        /\ Bypass(c) /\ Returned(c)
        /\ args[c].mode = "comprehensive" /\ args[c].format = "structured"
        /\ args[c].customTimeout = <<120>>
        /\ Resp(c).status = 200
        /\ ResultText(c) = BODY_RAW
        /\ fetched[c][1].headers = NoHeaders

\* the X-Timeout value of each extraction mode
ModeTimeout(mode) ==
    CASE mode = "standard" -> <<"1","0">>
      [] mode = "comprehensive" -> <<"1","5">>
      [] mode = "clean_content" -> <<"1","5">>

\* C6 (as claimed): on the normal path a supplied customTimeout n is sent as
\* X-Timeout = String(n), and the mode's default is sent only when none is supplied
C6_CustomTimeoutOverrides ==
    \A c \in Calls :
        NormalRead(c) =>
            fetched[c][1].headers["X-Timeout"] =
                IF args[c].customTimeout # <<>>
                THEN toString(args[c].customTimeout[1])
                ELSE ModeTimeout(args[c].mode)

\* the mode table
ModeTable(mode) ==
    CASE mode = "standard" ->
           [k \in {"X-Engine", "X-With-Links-Summary", "X-Timeout"} |->
              CASE k = "X-Engine" -> <<"d","i","r","e","c","t">>
                [] k = "X-With-Links-Summary" -> <<"t","r","u","e">>
                [] k = "X-Timeout" -> <<"1","0">>]
      [] mode = "comprehensive" ->
           [k \in {"X-Engine", "X-With-Links-Summary", "X-With-Images-Summary",
                   "X-Timeout"} |->
              CASE k = "X-Engine" -> <<"b","r","o","w","s","e","r">>
                [] k = "X-With-Links-Summary" -> <<"t","r","u","e">>
                [] k = "X-With-Images-Summary" -> <<"t","r","u","e">>
                [] k = "X-Timeout" -> <<"1","5">>]
      [] mode = "clean_content" ->
           [k \in {"X-Engine", "X-Target-Selector", "X-Remove-Selector", "X-Timeout"} |->
              CASE k = "X-Engine" -> <<"b","r","o","w","s","e","r">>
                [] k = "X-Target-Selector" -> <<"m","a","i","n",",","a","r","t","i","c","l","e",",",".","c","o","n","t","e","n","t">>
                [] k = "X-Remove-Selector" -> <<"n","a","v",",","h","e","a","d","e","r",",","f","o","o","t","e","r",",",".","s","i","d","e","b","a","r",",",".","a","d","s">>
                [] k = "X-Timeout" -> <<"1","5">>]

\* every key some mode sets
ModeKeys ==
    {"X-Engine", "X-With-Links-Summary", "X-With-Images-Summary",
     "X-Target-Selector", "X-Remove-Selector", "X-Timeout"}

SummaryKeys == {"X-With-Links-Summary", "X-With-Images-Summary"}

\* the keys the format step adds
FormatKeys(format) ==
    CASE format = "default" -> {}
      [] format = "structured" -> {"X-Return-Format"} \cup SummaryKeys
      [] OTHER -> {"X-Return-Format"}

\* the header set h carries each setting of the table with the table's value
CarriesTable(h, table) ==
    /\ DOMAIN table \subseteq DOMAIN h
    /\ \A k \in DOMAIN table : h[k] = table[k]

\* C7: for a URL not classified as GitHub, every mode m and every format f, the
\* header set buildJinaHeaders(m, f, false) carries each key of m's row of the
\* mode table with the row's value (the format step changed none of them); its
\* mode keys are those of m's row and, for structured only, the two summary keys
\* the format step adds; its other keys are Content-Type, Accept and, except for
\* default, X-Return-Format; and this is the header set the request is sent with
\* when no custom timeout is given.
C7_ModeKeysExact ==
    \A c \in Calls :
        NormalRead(c) /\ ~locals[c].isGitHub =>
            /\ CarriesTable(buildJinaHeaders(args[c].mode, args[c].format, FALSE),
                            ModeTable(args[c].mode))
            /\ DOMAIN buildJinaHeaders(args[c].mode, args[c].format, FALSE) \cap ModeKeys
                 = DOMAIN ModeTable(args[c].mode)
                     \cup (FormatKeys(args[c].format) \cap ModeKeys)
            /\ DOMAIN buildJinaHeaders(args[c].mode, args[c].format, FALSE) \ ModeKeys
                 = {"Content-Type", "Accept"} \cup (FormatKeys(args[c].format) \ ModeKeys)
            /\ (args[c].format = "structured" =>
                  \A k \in SummaryKeys :
                      buildJinaHeaders(args[c].mode, args[c].format, FALSE)[k] = <<"t","r","u","e">>)
            /\ (args[c].customTimeout = <<>> =>
                  fetched[c][1].headers
                    = createHeaders(buildJinaHeaders(args[c].mode, args[c].format, FALSE)))

\* C7 witness: a clean_content read in text format was sent with exactly the
\* clean_content settings, the base headers and the return format
C7_Witness ==
    \E c \in Calls :
        /\ NormalRead(c) /\ ~locals[c].isGitHub
        /\ args[c].mode = "clean_content" /\ args[c].format = "text"
        /\ args[c].customTimeout = <<>>
        /\ JINA_API_KEY = <<>>
        /\ DOMAIN fetched[c][1].headers
             = {"Content-Type", "Accept", "X-Engine", "X-Target-Selector",
                "X-Remove-Selector", "X-Timeout", "X-Return-Format"}
        /\ fetched[c][1].headers["X-Timeout"] = <<"1","5">>

\* jina_reader has just classified its URL
Classified(c) == tool[c] = "jina_reader" /\ pc[c] = "fetch"

\* the parts URLs of the shape github.com/<owner>/<repo>/blob/<ref>/<path> are made of
ShapePrefixes == {<<"h","t","t","p","s",":","/","/">>, <<"h","t","t","p",":","/","/","w","w","w",".">>}

ShapeRepos == Repos \cup {<<"b","l","o","b">>}

ShapeRefs == Refs \cup {<<"v","1",".","0">>}

ShapePaths == Paths \cup {<<"b","l","o","b","/","x",".","m","d">>}

\* a 40-character hexadecimal string, either letter case
FortyHex(ref) ==
    /\ Len(ref) = 40
    /\ \A k \in 1..Len(ref) :
         ref[k] \in {"0", "1", "2", "3", "4", "5", "6", "7", "8", "9",
                     "a", "b", "c", "d", "e", "f", "A", "B", "C", "D", "E", "F"}

\* the raw-content URL of a blob URL's parts
RawUrl(owner, repo, ref, path) ==
    <<"h","t","t","p","s",":","/","/","r","a","w",".","g","i","t","h","u","b","u","s","e","r","c","o","n","t","e","n","t",".","c","o","m","/">> \o owner \o <<"/">> \o repo \o <<"/">>
    \o (IF FortyHex(ref) THEN ref ELSE <<"r","e","f","s","/","h","e","a","d","s","/">> \o ref) \o <<"/">> \o path

\* C8: for every URL github.com/<owner>/<repo>/blob/<ref>/<path>, handleGitHubUrl
\* returns isGitHub = true and convertedUrl equal to
\* https://raw.githubusercontent.com/<owner>/<repo>/<ref>/<path> when <ref> is 40
\* hexadecimal characters of either case, and to
\* https://raw.githubusercontent.com/<owner>/<repo>/refs/heads/<ref>/<path>
\* for every other <ref>.
C8_BlobUrlConversion ==
    \A c \in Calls :
        Classified(c) =>
            \A prefix \in ShapePrefixes, owner \in Owners, repo \in ShapeRepos,
               ref \in ShapeRefs, path \in ShapePaths :
                args[c].url = BlobUrl(prefix, owner, repo, ref, path) =>
                    /\ locals[c].isGitHub = TRUE
                    /\ locals[c].convertedUrl = RawUrl(owner, repo, ref, path)

\* C8 witness: a blob URL at an upper-case commit hash was rewritten without
\* refs/heads/, and the parts copied unchanged
C8_Witness ==
    \E c \in Calls :
        /\ Classified(c)
        /\ args[c].url = <<"h","t","t","p","s",":","/","/","g","i","t","h","u","b",".","c","o","m","/","a","c","m","e","/","r","e","p","o","/","b","l","o","b","/">> \o Rep("A", 39)
                           \o <<"f","/","s","r","c","/","i","n","d","e","x",".","j","s">>
        /\ locals[c].convertedUrl = <<"h","t","t","p","s",":","/","/","r","a","w",".","g","i","t","h","u","b","u","s","e","r","c","o","n","t","e","n","t",".","c","o","m","/","a","c","m","e","/","r","e","p","o","/">>
                                      \o Rep("A", 39) \o <<"f","/","s","r","c","/","i","n","d","e","x",".","j","s">>

\* no "/" in u from index a to index b
NoSlash(u, a, b) == \A j \in a..b : u[j] # "/"

\* u[j] is the first "/" at or after index i, and not at i
FirstSlash(u, i, j) == j > i /\ j <= Len(u) /\ u[j] = "/" /\ NoSlash(u, i, j - 1)

\* github.com/<owner>/<repo>/blob/<ref> occurs in u at index i, each part non-empty
\* and free of "/"
RefShapeAt(u, i) ==
    /\ StartsWithAt(u, i, <<"g","i","t","h","u","b",".","c","o","m","/">>)
    /\ \E j \in 1..Len(u) :
         /\ FirstSlash(u, i + 11, j)
         /\ \E k \in 1..Len(u) :
              /\ FirstSlash(u, j + 1, k)
              /\ StartsWithAt(u, k, <<"/","b","l","o","b","/">>)
              /\ k + 6 <= Len(u)
              /\ u[k + 6] # "/"

\* github.com/<owner>/<repo>/blob/<ref>/<path> occurs in u at index i, <path> non-empty
FullShapeAt(u, i) ==
    /\ StartsWithAt(u, i, <<"g","i","t","h","u","b",".","c","o","m","/">>)
    /\ \E j \in 1..Len(u) :
         /\ FirstSlash(u, i + 11, j)
         /\ \E k \in 1..Len(u) :
              /\ FirstSlash(u, j + 1, k)
              /\ StartsWithAt(u, k, <<"/","b","l","o","b","/">>)
              /\ \E l \in 1..Len(u) :
                   FirstSlash(u, k + 6, l) /\ l < Len(u)

HasRefShape(u) == \E i \in 1..Len(u) : RefShapeAt(u, i)

HasFullShape(u) == \E i \in 1..Len(u) : FullShapeAt(u, i)

\* u with the github.com at index i replaced by raw.githubusercontent.com and the
\* /blob/ at index j replaced by /
Substituted(u, i, j) ==
    IF i < j
    THEN SubSeq(u, 1, i - 1) \o <<"r","a","w",".","g","i","t","h","u","b","u","s","e","r","c","o","n","t","e","n","t",".","c","o","m">> \o SubSeq(u, i + 10, j - 1)
         \o <<"/">> \o SubSeq(u, j + 6, Len(u))
    ELSE SubSeq(u, 1, j - 1) \o <<"/">> \o SubSeq(u, j + 6, i - 1)
         \o <<"r","a","w",".","g","i","t","h","u","b","u","s","e","r","c","o","n","t","e","n","t",".","c","o","m">> \o SubSeq(u, i + 10, Len(u))

\* the fallback textual substitution
Fallback(u) == Substituted(u, indexOf(u, <<"g","i","t","h","u","b",".","c","o","m">>), indexOf(u, <<"/","b","l","o","b","/">>))

\* C9 (as claimed): a URL that contains github.com and /blob/ without the full
\* owner/repo/blob/ref/path shape, a missing path included, gets the fallback
\* textual substitution and isGitHub = true
C9_FallbackWithoutFullShape ==
    \A c \in Calls :
        (Classified(c) /\ includes(args[c].url, <<"g","i","t","h","u","b",".","c","o","m">>)
           /\ includes(args[c].url, <<"/","b","l","o","b","/">>) /\ ~HasFullShape(args[c].url)) =>
            /\ locals[c].isGitHub = TRUE
            /\ locals[c].convertedUrl = Fallback(args[c].url)

\* C9 (amended): a URL that contains github.com and /blob/ gets isGitHub = true,
\* and gets the fallback textual substitution when github.com/<owner>/<repo>/blob/<ref>
\* occurs nowhere in it (owner, repository or ref missing); a URL where that
\* occurs with the path missing is rewritten by the pattern instead, to a URL
\* that ends with "/" after the ref.
C9_FallbackWithoutRefShape ==
    \A c \in Calls :
        (Classified(c) /\ includes(args[c].url, <<"g","i","t","h","u","b",".","c","o","m">>)
           /\ includes(args[c].url, <<"/","b","l","o","b","/">>)) =>
            /\ locals[c].isGitHub = TRUE
            /\ (~HasRefShape(args[c].url) =>
                  locals[c].convertedUrl = Fallback(args[c].url))
            /\ (HasRefShape(args[c].url) /\ ~HasFullShape(args[c].url) =>
                  /\ StartsWithAt(locals[c].convertedUrl, 1,
                                  <<"h","t","t","p","s",":","/","/","r","a","w",".","g","i","t","h","u","b","u","s","e","r","c","o","n","t","e","n","t",".","c","o","m","/">>)
                  /\ locals[c].convertedUrl[Len(locals[c].convertedUrl)] = "/")

\* C9 witness: a blob URL without a repository segment got the fallback substitution
C9_Witness ==
    \E c \in Calls :
        /\ Classified(c)
        /\ args[c].url = <<"h","t","t","p","s",":","/","/","g","i","t","h","u","b",".","c","o","m","/","a","c","m","e","/","b","l","o","b","/","m","a","i","n","/","x">>
        /\ ~HasRefShape(args[c].url)
        /\ locals[c].isGitHub = TRUE
        /\ locals[c].convertedUrl = <<"h","t","t","p","s",":","/","/","r","a","w",".","g","i","t","h","u","b","u","s","e","r","c","o","n","t","e","n","t",".","c","o","m","/","a","c","m","e","/","m","a","i","n","/","x">>

\* the index after "://" in u, 1 when there is none
HostStart(u) == IF includes(u, <<":","/","/">>) THEN indexOf(u, <<":","/","/">>) + 3 ELSE 1

\* the index after the host of u
HostEnd(u, from) ==
    IF \E j \in from..Len(u) : u[j] \in {"/", "?", "#"}
    THEN CHOOSE j \in from..Len(u) :
             /\ u[j] \in {"/", "?", "#"}
             /\ \A i \in from..(j - 1) : u[i] \notin {"/", "?", "#"}
    ELSE Len(u) + 1

\* the host of the URL u
Host(u) == SubSeq(u, HostStart(u), HostEnd(u, HostStart(u)) - 1)

\* C10 (as claimed): a URL whose host is not github.com is returned unchanged with
\* isGitHub = false and shouldBypassJina = false, and jina_reader sends it as the
\* JSON body {url} of a POST to the reader endpoint, never fetching it directly
C10_NonGitHubPassThrough ==
    \A c \in Calls :
        (Classified(c) /\ Host(args[c].url) \notin {<<"g","i","t","h","u","b",".","c","o","m">>, <<"w","w","w",".","g","i","t","h","u","b",".","c","o","m">>}) =>
            /\ locals[c].isGitHub = FALSE
            /\ locals[c].shouldBypassJina = FALSE
            /\ locals[c].convertedUrl = args[c].url
            /\ fetched[c][1].method = "POST"
            /\ fetched[c][1].url = <<"h","t","t","p","s",":","/","/","r",".","j","i","n","a",".","a","i","/">>
            /\ fetched[c][1].body = <<<<"{","\"","u","r","l","\"",":","\"">> \o args[c].url \o <<"\"","}">>>>

\* the reader endpoint answered c, a read on the normal path, with a 2xx status
\* and a body that parses as JSON
ReaderAnswered(c) ==
    /\ tool[c] = "jina_reader" /\ pc[c] = "done" /\ ~locals[c].shouldBypassJina
    /\ response[c] # <<>> /\ Resp(c).failed = "" /\ ok(Resp(c).status)
    /\ JSON_parse(Resp(c).body[1]) # <<>>

\* the data.content field of a parsed payload, undefined when there is none
ContentField(payload) ==
    IF payload.t = "object" /\ Prop(payload, <<"d","a","t","a">>).t = "object"
    THEN Prop(Prop(payload, <<"d","a","t","a">>), <<"c","o","n","t","e","n","t">>)
    ELSE undefined

\* the data.content field of the payload c received
ContentOf(c) == ContentField(JSON_parse(Resp(c).body[1])[1])

\* C11 (as claimed): on a 2xx JSON response of the reader endpoint jina_reader
\* returns data.content whenever the payload has that field, returns the
\* placeholder exactly when it has none, and the result is never an error
C11_ContentOrPlaceholder ==
    \A c \in Calls :
        ReaderAnswered(c) =>
            /\ Returned(c)
            /\ ~IsErrorResult(c)
            /\ (ContentOf(c).t # "undefined" => ResultText(c) = ContentOf(c).v)
            /\ (ResultText(c) = <<"N","o"," ","c","o","n","t","e","n","t"," ","e","x","t","r","a","c","t","e","d">> <=> ContentOf(c).t = "undefined")

\* C11 (amended): on a 2xx JSON response of the reader endpoint jina_reader
\* returns data.content, without isError, when the payload has that field and it
\* is a non-empty string; it returns the placeholder 'No content extracted',
\* without isError, when the payload is not null and has no data.content or an
\* empty one; and it returns an error result when the payload is JSON null.
C11_NonEmptyContentOrPlaceholder ==
    \A c \in Calls :
        ReaderAnswered(c) =>
            /\ Returned(c)
            /\ (JSON_parse(Resp(c).body[1])[1].t = "null" => IsErrorResult(c))
            /\ (JSON_parse(Resp(c).body[1])[1].t # "null" =>
                  /\ "isError" \notin DOMAIN result[c][1].value
                  /\ ResultText(c) =
                       IF ContentOf(c).t = "string" /\ ContentOf(c).v # <<>>
                       THEN ContentOf(c).v
                       ELSE <<"N","o"," ","c","o","n","t","e","n","t"," ","e","x","t","r","a","c","t","e","d">>)

\* C11 witness: the reader endpoint answered {"data":{"content":""}} and
\* jina_reader returned the placeholder
C11_Witness ==
    \E c \in Calls :
        /\ ReaderAnswered(c) /\ Returned(c)
        /\ Resp(c).body[1] = <<"{","\"","d","a","t","a","\"",":","{","\"","c","o","n","t","e","n","t","\"",":","\"","\"","}","}">>
        /\ ContentOf(c) = JStr(<<>>)
        /\ result[c][1].value = TextResult(<<"N","o"," ","c","o","n","t","e","n","t"," ","e","x","t","r","a","c","t","e","d">>)

\* invocation c is a jina_search call of src/index.js
Searching(c) == Invoked(c) /\ tool[c] = "jina_search"

\* the percent-encoding of the queries searched for
Encoded(query) ==
    CASE query = <<"q">> -> <<"q">>
      [] query = <<"a"," ","b","&","c">> -> <<"a","%","2","0","b","%","2","6","c">>

\* the one request of c is a GET of the search endpoint for c's query
SearchRequested(c) ==
    /\ Len(fetched[c]) = 1
    /\ fetched[c][1].method = "GET"
    /\ fetched[c][1].url = <<"h","t","t","p","s",":","/","/","s",".","j","i","n","a",".","a","i","/","?","q","=">> \o Encoded(args[c].query)
    /\ fetched[c][1].body = <<>>
    /\ "X-Respond-With" \in DOMAIN fetched[c][1].headers
    /\ fetched[c][1].headers["X-Respond-With"] = <<"n","o","-","c","o","n","t","e","n","t">>

\* a 2xx response whose text was read is returned as it is
SearchReturnsText(c) ==
    (pc[c] = "done" /\ response[c] # <<>> /\ Resp(c).failed = "" /\ ok(Resp(c).status)) =>
        result[c] = <<[kind |-> "return",
                       value |-> [content |-> <<[type |-> "text",
                                                 text |-> Resp(c).body[1]]>>]]>>

====
